---- MODULE Spec2Model ----
(***************************************************************************)
(* Session / question / grading lifecycle and the analytics aggregation    *)
(* of BarPrepPath.                                                         *)
(*                                                                         *)
(* The server is a stateless request-per-call Express application.  Every  *)
(* `await` in a handler is a point where other requests can run, so the    *)
(* POST /api/question-responses handler is modelled as one process per     *)
(* request whose program counter moves from one await to the next.  The    *)
(* tables are the Postgres tables of the drizzle schema, with the columns  *)
(* the handlers read or write.                                             *)
(***************************************************************************)
EXTENDS Integers, Sequences, FiniteSets, TLC

(* ------------------------------ bounds --------------------------------- *)

MaxSessions == 1
MaxRequests == 2
MaxSeqRequests == 3
MaxGradeRequests == 2
MaxPatchRequests == 1
MaxApiSessions == 1
MaxApiRequests == 1
MaxChatMessages == 1
MaxAdapterCalls == 2
MaxFrameSessions == 2
MaxFrameRequests == 3
MaxClientSessions == 2
MaxStoredAnswers == 6
MaxCalls == 2
MaxCallerSessions == 1
MaxCallerAnswers == 2
MaxProbabilityRows == 2
MaxRetryRequests == 3
MaxProviderSessions == 2

(* --------------------------- program constants ------------------------- *)

\* rows of the users table; "user-123" is the client's mock user id
Users == {"user-123", "user-456"}
\* SQL NULL / undefined in a text column or an optional string field
NULL == "null"
\* SQL NULL / undefined in an integer column or an optional number field
NullInt == -1

\* the values the status column is documented to take
SessionStatus == {"active", "completed", "abandoned"}
\* texts a PATCH body may carry for status
StatusTexts == {"active", "completed", "paused"}

Subjects == {"contracts", "torts"}

QuestionTypes == {"multiple-choice", "short-answer", "essay"}

\* grading scores an LLM reply may carry (AIGrading.score)
Scores == {69, 70}
\* grading.score of a verdict whose JSON object has no score (undefined)
NoScore == NullInt

PassingScore == 70

\* decimals are kept as integers in units of 1/DecimalScale
DecimalScale == 10000

VARIABLES
  testSessions,       \* table test_sessions: sequence of rows, id = index
  questionResponses,  \* table question_responses: sequence of rows
  userAnalytics,      \* table user_analytics: sequence of rows
  requests,           \* POST /api/question-responses requests, in arrival order
  chatMessages,       \* table chat_messages: sequence of rows
  exchange,           \* the HTTP exchange being served: request, progress, response
  adapterCalls,       \* AIService calls: provider asked for, backends invoked, outcome
  client,             \* state of the React component Home (its useState cells)
  calls               \* the component's pending mutateAsync promises

\* the tables and the submit-answer requests
serverVars == <<testSessions, questionResponses, userAnalytics, requests>>

\* what the submit-answer handler never touches
others == <<chatMessages, exchange, adapterCalls, client, calls>>

vars == <<testSessions, questionResponses, userAnalytics, requests, chatMessages, exchange, adapterCalls, client, calls>>

(* ------------------------------ helpers -------------------------------- *)

Min(a, b) == IF a <= b THEN a ELSE b

\* JS number division and multiplication on fixed-point decimals
JsDivide(a, b) == (2 * a * DecimalScale + b) \div (2 * b)

\* mutation: the quotient is stored as a fraction, not as a percentage
AverageScore_Fraction(correctAnswers, totalQuestions) ==
  (2 * correctAnswers * 10000 + totalQuestions) \div (2 * totalQuestions)

\* const averageScore = (correctAnswers / totalQuestions) * 100;
AverageScore(correctAnswers, totalQuestions) ==
  JsDivide(correctAnswers, totalQuestions) * 100

\* const masteryLevel = Math.min(100, averageScore);
MasteryLevel(averageScore) == Min(100 * DecimalScale, averageScore)

\* mutation: the threshold is exclusive
IsCorrect_Exclusive(score) ==
  IF score = NullInt THEN FALSE ELSE score > 70

\* const isCorrect = grading.score >= 70;  (undefined >= 70 is false)
IsCorrect(score) == IF score = NullInt THEN FALSE ELSE score >= PassingScore

\* x || 0
OrZero(x) == IF x = NullInt THEN 0 ELSE x

\* const totalQuestions = (subjectAnalytics?.totalQuestions || 0) + 1;
NextTotalQuestions(prevTotal) == OrZero(prevTotal) + 1

\* mutation: every answer counts as correct
NextCorrectAnswers_Always(prevCorrect, isCorrect) ==
  (IF prevCorrect = NullInt THEN 0 ELSE prevCorrect) + 1

\* const correctAnswers =
\*   (subjectAnalytics?.correctAnswers || 0) + (isCorrect ? 1 : 0);
NextCorrectAnswers(prevCorrect, isCorrect) ==
  OrZero(prevCorrect) + (IF isCorrect THEN 1 ELSE 0)

InFlight(r) == requests[r].pc \notin {"done", "failed"}

NumInFlight == Cardinality({r \in DOMAIN requests : InFlight(r)})

\* mutation: the where clause compares the subject only
AnalyticsRows_AnyUser(userId, subject) ==
  {i \in DOMAIN userAnalytics : userAnalytics[i].subject = subject}

\* rows of user_analytics selected by
\* and(eq(userAnalytics.userId, userId), eq(userAnalytics.subject, subject))
AnalyticsRows(userId, subject) ==
  {i \in DOMAIN userAnalytics :
     userAnalytics[i].userId = userId /\ userAnalytics[i].subject = subject}

(* ------------------------------- Init ---------------------------------- *)

\* currentSession = null, currentQuestion = null
NoSession == [id |-> 0, testType |-> NULL, totalQuestions |-> NullInt]
NoQuestion == [type |-> NULL, subject |-> NULL, questionNumber |-> 0]

\* the useState initial values of Home
InitialClient ==
  [selectedProvider |-> "openai", currentSession |-> NoSession,
   currentQuestion |-> NoQuestion, currentQuestionNumber |-> 1,
   showExplanation |-> FALSE, isGeneratingQuestion |-> FALSE,
   testMode |-> "diagnostic", storedAnswers |-> <<>>]

\* no HTTP request is being served
NoExchange ==
  [endpoint |-> NULL, id |-> 0, body |-> [userId |-> NULL], pc |-> "idle",
   questions |-> <<>>, status |-> 0, session |-> 0,
   passProbability |-> NullInt]

Init ==
  /\ testSessions = <<>>
  /\ questionResponses = <<>>
  /\ userAnalytics = <<>>
  /\ requests = <<>>
  /\ chatMessages = <<>>
  /\ exchange = NoExchange
  /\ adapterCalls = <<>>
  /\ client = InitialClient
  /\ calls = <<>>

(* ------------------------- session endpoints --------------------------- *)

\* storage.createTestSession: insert with the column defaults of the schema
NewTestSession(userId, totalQuestions) ==
  [userId |-> userId, status |-> "active",
   totalQuestions |-> totalQuestions, currentQuestionIndex |-> 0]

\* POST /api/test-sessions
CreateTestSession(userId, totalQuestions, maxSessions) ==
  /\ Len(testSessions) < maxSessions
  /\ userId \in Users
  /\ testSessions' = Append(testSessions, NewTestSession(userId, totalQuestions))
  /\ UNCHANGED <<questionResponses, userAnalytics, requests>>
  /\ UNCHANGED others

\* bodies of PATCH /api/test-sessions/:id : any partial row, unvalidated
StatusPatchBodies == {[status |-> s] : s \in StatusTexts}
OwnerPatchBodies == {[userId |-> NULL]}
PatchBodies == StatusPatchBodies \cup OwnerPatchBodies

\* db.update(testSessions).set(updates).where(eq(testSessions.id, id))
UpdateTestSession(id, updates) ==
  [i \in DOMAIN testSessions |->
     IF i = id
       THEN [f \in DOMAIN testSessions[i] |->
               IF f \in DOMAIN updates THEN updates[f] ELSE testSessions[i][f]]
       ELSE testSessions[i]]

\* PATCH /api/test-sessions/:id
PatchTestSession(id, updates) ==
  /\ id \in DOMAIN testSessions
  /\ testSessions' = UpdateTestSession(id, updates)
  /\ UNCHANGED <<questionResponses, userAnalytics, requests>>
  /\ UNCHANGED others

(* ------------------- POST /api/question-responses ---------------------- *)

\* the handler's local variables at the moment the request arrives; pc is
\* the await the handler is suspended at, alone records whether the request
\* ran without any other request in flight
NewRequest(sessionId, questionNumber, questionType, subject, alone) ==
  [sessionId |-> sessionId, questionNumber |-> questionNumber,
   questionType |-> questionType, subject |-> subject, pc |-> "grade",
   score |-> NoScore, isCorrect |-> FALSE, userId |-> NULL,
   totalQuestions |-> 0, correctAnswers |-> 0, existing |-> FALSE,
   alone |-> alone]

\* the requests once one more has entered the handler: the ones in flight
\* are no longer alone, the new one is alone if nothing else is in flight
Arrive(sessionId, questionNumber, questionType, subject) ==
  Append([r \in DOMAIN requests |->
            IF InFlight(r) THEN [requests[r] EXCEPT !.alone = FALSE]
                           ELSE requests[r]],
         NewRequest(sessionId, questionNumber, questionType, subject,
                    NumInFlight = 0))

\* responseSchema.parse(req.body) succeeds; the handler awaits gradeResponse
SubmitAnswer(sessionId, questionNumber, questionType, subject, maxRequests, maxInFlight) ==
  /\ Len(requests) < maxRequests
  /\ NumInFlight < maxInFlight
  /\ requests' = Arrive(sessionId, questionNumber, questionType, subject)
  /\ UNCHANGED <<testSessions, questionResponses, userAnalytics>>
  /\ UNCHANGED others

\* aiService.gradeResponse returns a verdict; isCorrect = grading.score >= 70
GradeReturn(r, score) ==
  /\ requests[r].pc = "grade"
  /\ requests' = [requests EXCEPT ![r].score = score,
                                  ![r].isCorrect = IsCorrect(score),
                                  ![r].pc = "insert"]
  /\ UNCHANGED <<testSessions, questionResponses, userAnalytics>>
  /\ UNCHANGED others

\* the row storage.createQuestionResponse inserts
NewQuestionResponse(req) ==
  [sessionId |-> req.sessionId, questionNumber |-> req.questionNumber,
   questionType |-> req.questionType, subject |-> req.subject,
   isCorrect |-> req.isCorrect, score |-> req.score]

\* mutation: the response is inserted before the grading call is awaited
GradeFail_AfterInsert(r) ==
  /\ requests[r].pc = "grade"
  /\ requests' = [requests EXCEPT ![r].pc = "failed"]
  /\ questionResponses' =
       Append(questionResponses, NewQuestionResponse(requests[r]))
  /\ UNCHANGED <<testSessions, userAnalytics>>
  /\ UNCHANGED others

\* aiService.gradeResponse throws: caught at the request boundary, 500
GradeFail(r) ==
  /\ requests[r].pc = "grade"
  /\ requests' = [requests EXCEPT ![r].pc = "failed"]
  /\ UNCHANGED <<testSessions, questionResponses, userAnalytics>>
  /\ UNCHANGED others

\* mutation: the column has no foreign key
ForeignKeyHolds_None(sessionId) == TRUE

\* question_responses.session_id references test_sessions.id
ForeignKeyHolds(sessionId) == sessionId \in DOMAIN testSessions

\* await storage.createQuestionResponse({...validatedData, isCorrect, ...})
\* then `if (validatedData.subject)`
CreateQuestionResponse(r) ==
  /\ requests[r].pc = "insert"
  /\ IF ForeignKeyHolds(requests[r].sessionId)
       THEN /\ questionResponses' =
                 Append(questionResponses, NewQuestionResponse(requests[r]))
            /\ requests' = [requests EXCEPT ![r].pc =
                 IF requests[r].subject /= NULL THEN "session" ELSE "done"]
       ELSE /\ requests' = [requests EXCEPT ![r].pc = "failed"]
            /\ UNCHANGED questionResponses
  /\ UNCHANGED <<testSessions, userAnalytics>>
  /\ UNCHANGED others

\* const session = await storage.getTestSession(validatedData.sessionId);
\* if (session?.userId)
GetTestSession(r) ==
  /\ requests[r].pc = "session"
  /\ LET userId == IF requests[r].sessionId \in DOMAIN testSessions
                     THEN testSessions[requests[r].sessionId].userId
                     ELSE NULL
     IN requests' = [requests EXCEPT ![r].userId = userId,
                       ![r].pc = IF userId /= NULL THEN "read" ELSE "done"]
  /\ UNCHANGED <<testSessions, questionResponses, userAnalytics>>
  /\ UNCHANGED others

\* updateUserAnalytics, up to its second await:
\* currentAnalytics = await storage.getUserAnalytics(userId); find; compute.
\* The select has no ORDER BY, so find may meet any matching row first.
ReadAnalytics(r) ==
  /\ requests[r].pc = "read"
  /\ LET rows == AnalyticsRows(requests[r].userId, requests[r].subject)
     IN \E found \in (IF rows = {} THEN {0} ELSE rows) :
          LET prevTotal == IF found = 0 THEN NullInt
                           ELSE userAnalytics[found].totalQuestions
              prevCorrect == IF found = 0 THEN NullInt
                             ELSE userAnalytics[found].correctAnswers
          IN requests' = [requests EXCEPT
               ![r].totalQuestions = NextTotalQuestions(prevTotal),
               ![r].correctAnswers =
                  NextCorrectAnswers(prevCorrect, requests[r].isCorrect),
               ![r].pc = "select"]
  /\ UNCHANGED <<testSessions, questionResponses, userAnalytics>>
  /\ UNCHANGED others

\* mutation: existing.length > 1
HasExisting_OffByOne(rows) == Cardinality(rows) > 1

\* existing.length > 0
HasExisting(rows) == Cardinality(rows) > 0

\* storage.updateUserAnalytics: const existing = await db.select()...
SelectExisting(r) ==
  /\ requests[r].pc = "select"
  /\ requests' = [requests EXCEPT
       ![r].existing =
          HasExisting(AnalyticsRows(requests[r].userId, requests[r].subject)),
       ![r].pc = "write"]
  /\ UNCHANGED <<testSessions, questionResponses, userAnalytics>>
  /\ UNCHANGED others

\* the values updateUserAnalytics passes to storage.updateUserAnalytics
AnalyticsValues(totalQuestions, correctAnswers) ==
  [totalQuestions |-> totalQuestions,
   correctAnswers |-> correctAnswers,
   averageScore |-> AverageScore(correctAnswers, totalQuestions),
   masteryLevel |-> MasteryLevel(AverageScore(correctAnswers, totalQuestions))]

\* mutation: the update leaves total_questions out of the set clause
SetAnalytics_NoTotal(row, values) ==
  [row EXCEPT !.correctAnswers = values.correctAnswers,
              !.averageScore = values.averageScore,
              !.masteryLevel = values.masteryLevel]

\* db.update(userAnalytics).set({ ...analytics, updatedAt }) on one row
SetAnalytics(row, values) ==
  [row EXCEPT !.totalQuestions = values.totalQuestions,
              !.correctAnswers = values.correctAnswers,
              !.averageScore = values.averageScore,
              !.masteryLevel = values.masteryLevel]

\* db.insert(userAnalytics).values({ userId, subject, ...analytics })
NewAnalytics(userId, subject, values) ==
  [userId |-> userId, subject |-> subject,
   totalQuestions |-> values.totalQuestions,
   correctAnswers |-> values.correctAnswers,
   averageScore |-> values.averageScore,
   masteryLevel |-> values.masteryLevel]

\* storage.updateUserAnalytics: update every matching row, or insert one
WriteAnalytics(r) ==
  /\ requests[r].pc = "write"
  /\ LET req == requests[r]
         values == AnalyticsValues(req.totalQuestions, req.correctAnswers)
     IN userAnalytics' =
          IF req.existing
            THEN [i \in DOMAIN userAnalytics |->
                    IF i \in AnalyticsRows(req.userId, req.subject)
                      THEN SetAnalytics(userAnalytics[i], values)
                      ELSE userAnalytics[i]]
            ELSE Append(userAnalytics,
                        NewAnalytics(req.userId, req.subject, values))
  /\ requests' = [requests EXCEPT ![r].pc = "done"]
  /\ UNCHANGED <<testSessions, questionResponses>>
  /\ UNCHANGED others

\* storage.getTestSession or a storage call of updateUserAnalytics throws
\* after the response was inserted: caught at the request boundary, 500
AnalyticsFail(r) ==
  /\ requests[r].pc \in {"session", "read", "select", "write"}
  /\ requests' = [requests EXCEPT ![r].pc = "failed"]
  /\ UNCHANGED <<testSessions, questionResponses, userAnalytics>>
  /\ UNCHANGED others

\* the client sends the body of a request that was answered 500 once more
Resend(r, maxRequests) ==
  /\ requests[r].pc = "failed"
  /\ SubmitAnswer(requests[r].sessionId, requests[r].questionNumber,
                  requests[r].questionType, requests[r].subject,
                  maxRequests, 1)

(* ------------------------ request validation --------------------------- *)

\* LLMProvider
Providers == {"openai", "anthropic", "deepseek", "perplexity"}

\* z.enum of diagnosticSchema.type
DiagnosticTypes == {"single-mc", "single-sa", "single-essay", "three-mixed"}

\* z.object(...).parse returns the keys of the schema and drops the others
Strip(body, keys) == [f \in DOMAIN body \cap keys |-> body[f]]

\* a column or field that was not given takes its default
OrDefault(data, key, default) ==
  IF key \in DOMAIN data THEN data[key] ELSE default

\* sessionSchema of POST /api/test-sessions
SessionSchemaKeys ==
  {"userId", "testType", "llmProvider", "totalQuestions", "metadata"}

SessionSchemaAccepts(body) ==
  /\ {"userId", "testType", "llmProvider"} \subseteq DOMAIN body
  /\ body["llmProvider"] \in Providers

\* mutation: the schema is .passthrough(), unknown keys reach the insert
SessionSchemaParse_Passthrough(body) == body

\* const validatedData = sessionSchema.parse(req.body);
SessionSchemaParse(body) == Strip(body, SessionSchemaKeys)

\* responseSchema of POST /api/question-responses
ResponseSchemaAccepts(body) ==
  /\ {"sessionId", "questionNumber", "questionType", "questionText",
      "userAnswer", "llmProvider"} \subseteq DOMAIN body
  /\ body["questionType"] \in QuestionTypes
  /\ body["llmProvider"] \in Providers

\* chatSchema of POST /api/chat
ChatSchemaAccepts(body) ==
  /\ {"userId", "message", "provider"} \subseteq DOMAIN body
  /\ body["provider"] \in Providers

\* diagnosticSchema of POST /api/diagnostic-tests
DiagnosticSchemaAccepts(body) ==
  /\ {"type", "provider", "userId"} \subseteq DOMAIN body
  /\ body["type"] \in DiagnosticTypes
  /\ body["provider"] \in Providers

\* db.insert(testSessions).values(insertTestSession).returning(): the columns
\* that were given, the column defaults of the schema for the others
InsertTestSession(data) ==
  [userId |-> OrDefault(data, "userId", NULL),
   testType |-> OrDefault(data, "testType", NULL),
   llmProvider |-> OrDefault(data, "llmProvider", NULL),
   status |-> OrDefault(data, "status", "active"),
   totalQuestions |-> OrDefault(data, "totalQuestions", NullInt),
   currentQuestionIndex |-> OrDefault(data, "currentQuestionIndex", 0)]

(* ---------------------------- HTTP exchanges ---------------------------- *)

\* express hands a request to its route; one exchange is served at a time
Receive(endpoint, id, body) ==
  /\ exchange.pc \in {"idle", "responded"}
  /\ exchange' = [endpoint |-> endpoint, id |-> id, body |-> body,
                  pc |-> "received", questions |-> <<>>, status |-> 0,
                  session |-> 0, passProbability |-> NullInt]
  /\ UNCHANGED <<serverVars, chatMessages, adapterCalls, client, calls>>

\* res.json(...) or res.status(500).json(...)
Respond(status) == [exchange EXCEPT !.pc = "responded", !.status = status]

\* POST /api/test-sessions: parse, insert, answer the row
PostTestSession ==
  /\ exchange.pc = "received"
  /\ exchange.endpoint = "POST /api/test-sessions"
  /\ IF SessionSchemaAccepts(exchange.body) /\ exchange.body["userId"] \in Users
       THEN /\ testSessions' =
                 Append(testSessions,
                        InsertTestSession(SessionSchemaParse(exchange.body)))
            /\ exchange' = [Respond(200) EXCEPT !.session = Len(testSessions) + 1]
       ELSE /\ exchange' = Respond(500)
            /\ UNCHANGED testSessions
  /\ UNCHANGED <<questionResponses, userAnalytics, requests>>
  /\ UNCHANGED <<chatMessages, adapterCalls, client, calls>>

\* PATCH /api/test-sessions/:id: req.body goes to the update as it is
PatchExchange ==
  /\ exchange.pc = "received"
  /\ exchange.endpoint = "PATCH /api/test-sessions/:id"
  /\ testSessions' = UpdateTestSession(exchange.id, exchange.body)
  /\ exchange' = Respond(200)
  /\ UNCHANGED <<questionResponses, userAnalytics, requests>>
  /\ UNCHANGED <<chatMessages, adapterCalls, client, calls>>

\* POST /api/question-responses, up to its first await
PostQuestionResponse ==
  /\ exchange.pc = "received"
  /\ exchange.endpoint = "POST /api/question-responses"
  /\ IF ResponseSchemaAccepts(exchange.body)
       THEN /\ requests' = Arrive(exchange.body["sessionId"],
                                  exchange.body["questionNumber"],
                                  exchange.body["questionType"],
                                  OrDefault(exchange.body, "subject", NULL))
            /\ exchange' = [exchange EXCEPT !.pc = "handling"]
       ELSE /\ exchange' = Respond(500)
            /\ UNCHANGED requests
  /\ UNCHANGED <<testSessions, questionResponses, userAnalytics>>
  /\ UNCHANGED <<chatMessages, adapterCalls, client, calls>>

\* POST /api/question-responses: res.json once the handler has run, or the
\* catch block's 500
AnswerQuestionResponse ==
  /\ exchange.pc = "handling"
  /\ requests /= <<>>
  /\ ~InFlight(Len(requests))
  /\ exchange' = Respond(IF requests[Len(requests)].pc = "done" THEN 200 ELSE 500)
  /\ UNCHANGED <<serverVars, chatMessages, adapterCalls, client, calls>>

\* POST /api/chat, up to `await aiService.getChatResponse`
PostChat ==
  /\ exchange.pc = "received"
  /\ exchange.endpoint = "POST /api/chat"
  /\ exchange' = IF ChatSchemaAccepts(exchange.body)
                   THEN [exchange EXCEPT !.pc = "chat"]
                   ELSE Respond(500)
  /\ UNCHANGED <<serverVars, chatMessages, adapterCalls, client, calls>>

\* the row storage.createChatMessage inserts
NewChatMessage(body) ==
  [userId |-> body["userId"], message |-> body["message"],
   llmProvider |-> body["provider"],
   context |-> OrDefault(body, "context", "bar-prep")]

\* getChatResponse returned: await storage.createChatMessage, res.json
ChatReturn ==
  /\ exchange.pc = "chat"
  /\ IF exchange.body["userId"] \in Users
       THEN /\ chatMessages' = Append(chatMessages, NewChatMessage(exchange.body))
            /\ exchange' = Respond(200)
       ELSE /\ exchange' = Respond(500)
            /\ UNCHANGED chatMessages
  /\ UNCHANGED <<serverVars, adapterCalls, client, calls>>

\* getChatResponse threw
ChatFail ==
  /\ exchange.pc = "chat"
  /\ exchange' = Respond(500)
  /\ UNCHANGED <<serverVars, chatMessages, adapterCalls, client, calls>>

\* the switch of POST /api/diagnostic-tests: the questions it generates
DiagnosticPlan(type) ==
  CASE type = "single-mc" ->
         <<[type |-> "multiple-choice", subject |-> "constitutional-law"]>>
    [] type = "single-sa" ->
         <<[type |-> "short-answer", subject |-> "contracts"]>>
    [] type = "single-essay" ->
         <<[type |-> "essay", subject |-> "torts"]>>
    [] type = "three-mixed" ->
         <<[type |-> "multiple-choice", subject |-> "constitutional-law"],
           [type |-> "short-answer", subject |-> "contracts"],
           [type |-> "essay", subject |-> "torts"]>>
    [] OTHER -> <<>>

\* testType: `diagnostic-${type}`
DiagnosticTestType(type) ==
  CASE type = "single-mc" -> "diagnostic-single-mc"
    [] type = "single-sa" -> "diagnostic-single-sa"
    [] type = "single-essay" -> "diagnostic-single-essay"
    [] type = "three-mixed" -> "diagnostic-three-mixed"
    [] OTHER -> "diagnostic-"

\* mutation: the index itself is the question number
NumberQuestions_ZeroBased(questions) ==
  [i \in DOMAIN questions |->
     [type |-> questions[i].type, subject |-> questions[i].subject,
      questionNumber |-> i - 1]]

\* questions.map((q, index) => ({ ...q, questionNumber: index + 1, ... }))
NumberQuestions(questions) ==
  [i \in DOMAIN questions |->
     [type |-> questions[i].type, subject |-> questions[i].subject,
      questionNumber |-> (i - 1) + 1]]

\* the values POST /api/diagnostic-tests passes to storage.createTestSession
DiagnosticSession(body, questions) ==
  [userId |-> body["userId"], testType |-> DiagnosticTestType(body["type"]),
   llmProvider |-> body["provider"], totalQuestions |-> Len(questions)]

\* POST /api/diagnostic-tests, up to its first await
PostDiagnosticTest ==
  /\ exchange.pc = "received"
  /\ exchange.endpoint = "POST /api/diagnostic-tests"
  /\ exchange' = IF DiagnosticSchemaAccepts(exchange.body)
                   THEN [exchange EXCEPT !.pc = "generating"]
                   ELSE Respond(500)
  /\ UNCHANGED <<serverVars, chatMessages, adapterCalls, client, calls>>

\* questions.push(await aiService.generateQuestion(...)) returned
DiagnosticGenerate ==
  /\ exchange.pc = "generating"
  /\ Len(exchange.questions) < Len(DiagnosticPlan(exchange.body["type"]))
  /\ exchange' = [exchange EXCEPT !.questions =
       Append(@, DiagnosticPlan(exchange.body["type"])[Len(@) + 1])]
  /\ UNCHANGED <<serverVars, chatMessages, adapterCalls, client, calls>>

\* aiService.generateQuestion threw
DiagnosticGenerateFail ==
  /\ exchange.pc = "generating"
  /\ Len(exchange.questions) < Len(DiagnosticPlan(exchange.body["type"]))
  /\ exchange' = Respond(500)
  /\ UNCHANGED <<serverVars, chatMessages, adapterCalls, client, calls>>

\* every question was generated: createTestSession, res.json
DiagnosticCreateSession ==
  /\ exchange.pc = "generating"
  /\ Len(exchange.questions) = Len(DiagnosticPlan(exchange.body["type"]))
  /\ IF exchange.body["userId"] \in Users
       THEN /\ testSessions' =
                 Append(testSessions,
                        InsertTestSession(
                          DiagnosticSession(exchange.body, exchange.questions)))
            /\ exchange' = [Respond(200) EXCEPT
                 !.session = Len(testSessions) + 1,
                 !.questions = NumberQuestions(exchange.questions)]
       ELSE /\ exchange' = Respond(500)
            /\ UNCHANGED testSessions
  /\ UNCHANGED <<questionResponses, userAnalytics, requests>>
  /\ UNCHANGED <<chatMessages, adapterCalls, client, calls>>

(* --------------------------- provider adapter --------------------------- *)

\* the three entry points of AIService
AdapterKinds == {"generate", "grade", "chat"}

\* what a backend may send back: a JSON object, the object in ```json
\* fences, the fenced object after a line of commentary, prose without any
\* object, an object cut off before its closing brace, empty content, or no
\* usable HTTP response at all
Replies ==
  {"json", "fenced", "commentary", "text", "truncated", "empty", "failure"}

\* mutation: an unsupported provider falls back to openai
Dispatch_Fallback(provider) ==
  IF provider \in Providers THEN <<provider>> ELSE <<"openai">>

\* switch (provider): the backend functions the call invokes
Dispatch(provider) ==
  IF provider \in Providers THEN <<provider>> ELSE <<>>

\* the content of each reply, line by line: prose, the fence lines
\* ("fence-json" for ```json, "fence" for ```), and the object as its
\* opening brace, its members and its closing brace
ReplyText(reply) ==
  CASE reply = "json" -> <<"{", "payload", "}">>
    [] reply = "fenced" -> <<"fence-json", "{", "payload", "}", "fence">>
    [] reply = "commentary" -> <<"prose", "fence-json", "{", "payload", "}", "fence">>
    [] reply = "text" -> <<"prose">>
    [] reply = "truncated" -> <<"{", "payload">>
    [] OTHER -> <<>>

\* JSON.parse throws
SyntaxError == "SyntaxError"

\* JSON.parse(text): the object parsed, or SyntaxError
JsonParse(text) ==
  IF text = <<"{", "payload", "}">> THEN "payload"
  ELSE IF text = <<"{", "}">> THEN "{}"
  ELSE SyntaxError

\* content || '{}'
OrEmptyObject(text) == IF text = <<>> THEN <<"{", "}">> ELSE text

\* .replace(/```json\s*/g, '')
StripJsonFences(text) == SelectSeq(text, LAMBDA line : line /= "fence-json")

\* .replace(/```\s*$/g, ''): the fence that ends the text
StripLastFence(text) ==
  IF Len(text) > 0 /\ text[Len(text)] = "fence"
    THEN SubSeq(text, 1, Len(text) - 1)
    ELSE text

\* .replace(/```\s*$/gm, ''): every fence that ends a line
StripLineFences(text) == SelectSeq(text, LAMBDA line : line /= "fence")

\* responseText.match(/\{[\s\S]*\}/): from the first opening brace to the
\* last closing brace, when there is such a stretch
MatchObject(text) ==
  LET opening == {i \in DOMAIN text : text[i] = "{"}
      closing == {j \in DOMAIN text : text[j] = "}"}
      first == CHOOSE i \in opening : \A k \in opening : i <= k
      last == CHOOSE j \in closing : \A k \in closing : j >= k
  IN IF opening /= {} /\ closing /= {} /\ first < last
       THEN SubSeq(text, first, last)
       ELSE text

\* what the generate and grade functions of each backend return for a
\* reply content: the parsed object, or SyntaxError when JSON.parse throws
ParseReply(provider, text) ==
  CASE provider = "openai" -> JsonParse(OrEmptyObject(text))
    [] provider = "perplexity" -> JsonParse(OrEmptyObject(text))
    [] provider = "deepseek" ->
         JsonParse(StripLastFence(StripJsonFences(OrEmptyObject(text))))
    [] provider = "anthropic" ->
         JsonParse(MatchObject(StripLineFences(StripJsonFences(text))))
    [] OTHER -> SyntaxError

\* the text cleanup and JSON.parse of the generate and grade functions of
\* each backend: TRUE when JSON.parse returns
ContentParses(provider, reply) ==
  ParseReply(provider, ReplyText(reply)) /= SyntaxError

\* whether the backend function returns (TRUE) or throws (FALSE)
Returns(kind, provider, reply) ==
  IF reply = "failure" THEN FALSE
  ELSE IF kind = "chat" THEN TRUE
  ELSE ContentParses(provider, reply)

\* generateQuestion / gradeResponse / getChatResponse up to the await of the
\* backend function; the default branch throws
AdapterCall(kind, provider) ==
  /\ Len(adapterCalls) < MaxAdapterCalls
  /\ \A c \in DOMAIN adapterCalls : adapterCalls[c].pc /= "awaiting"
  /\ adapterCalls' = Append(adapterCalls,
       [kind |-> kind, provider |-> provider, invoked |-> Dispatch(provider),
        reply |-> NULL, result |-> NULL,
        pc |-> IF Dispatch(provider) = <<>> THEN "error" ELSE "awaiting"])
  /\ UNCHANGED <<serverVars, chatMessages, exchange, client, calls>>

\* the backend answered (or the HTTP call failed): the backend function
\* returns its result or throws, and the call ends there
BackendReply(c, reply) ==
  /\ adapterCalls[c].pc = "awaiting"
  /\ adapterCalls' = [adapterCalls EXCEPT
       ![c].reply = reply,
       ![c].result =
          IF Returns(adapterCalls[c].kind, adapterCalls[c].provider, reply)
               /\ adapterCalls[c].kind /= "chat"
            THEN ParseReply(adapterCalls[c].provider, ReplyText(reply))
            ELSE NULL,
       ![c].pc = IF Returns(adapterCalls[c].kind, adapterCalls[c].provider, reply)
                   THEN "returned" ELSE "error"]
  /\ UNCHANGED <<serverVars, chatMessages, exchange, client, calls>>

(* ------------------------------ the client ----------------------------- *)

\* TestType
TestTypes ==
  {"diagnostic", "full-exam", "day1", "day2", "day3", "diagnostic-dev"}

\* the exams generateFullExam can be asked for
ExamTypes == {"day1", "day2", "day3", "full-exam"}

\* x || d on an optional number
TotalOr(totalQuestions, default) ==
  IF totalQuestions = NullInt \/ totalQuestions = 0 THEN default
  ELSE totalQuestions

\* mutation: short answers start at question 15
QuestionTypeFor_From15(testMode, totalQuestions, questionNumber) ==
  IF testMode = "diagnostic" /\ totalQuestions = 20
    THEN IF questionNumber >= 15 /\ questionNumber <= 18 THEN "short-answer"
         ELSE IF questionNumber > 18 THEN "essay"
         ELSE "multiple-choice"
    ELSE "multiple-choice"

\* generateNextQuestion: the question type asked of the provider
QuestionTypeFor(testMode, totalQuestions, questionNumber) ==
  IF testMode = "diagnostic" /\ totalQuestions = 20
    THEN IF questionNumber > 15 /\ questionNumber <= 18 THEN "short-answer"
         ELSE IF questionNumber > 18 THEN "essay"
         ELSE "multiple-choice"
    ELSE "multiple-choice"

\* generateFullExam: the switch on type
ExamTotalQuestions(type) ==
  CASE type = "day1" -> 22
    [] type = "day2" -> 200
    [] type = "day3" -> 6
    [] type = "full-exam" -> 228
    [] OTHER -> 0

\* generateFullExam: the type of the first question
FirstQuestionType(type) ==
  IF type = "day1" THEN "short-answer"
  ELSE IF type = "day3" THEN "essay"
  ELSE "multiple-choice"

HasSession == client.currentSession.id /= 0
HasQuestion == client.currentQuestion.questionNumber /= 0

\* `currentQuestion && currentSession`: the question is on screen
QuestionView == HasQuestion /\ HasSession

\* the cards of the diagnostic tab: neither the spinner nor the question
MenuVisible ==
  /\ ~(client.isGeneratingQuestion /\ ~HasQuestion)
  /\ ~QuestionView

\* mutation.isPending of a hook
Pending(op) == \E c \in DOMAIN calls : calls[c].op = op

\* a pending mutateAsync promise and what its continuation needs
Call(op, origin, sessionId, type, questionNumber) ==
  [op |-> op, origin |-> origin, sessionId |-> sessionId, type |-> type,
   questionNumber |-> questionNumber]

Remove(seq, c) == SubSeq(seq, 1, c - 1) \o SubSeq(seq, c + 1, Len(seq))

\* the TestSession object the server answers for row id
SessionObject(id, row) ==
  [id |-> id, testType |-> row.testType, totalQuestions |-> row.totalQuestions]

\* the question a provider generated on request of the client
GeneratedQuestion(type, questionNumber) ==
  [type |-> type, subject |-> "contracts", questionNumber |-> questionNumber]

\* generateNextQuestion(session, questionNumber) up to its await
GenerateNextQuestion(state, testMode, session, questionNumber) ==
  [client |-> [state EXCEPT !.isGeneratingQuestion = TRUE],
   call |-> Call("generateQuestion", "generateNextQuestion", session.id,
                 QuestionTypeFor(testMode, session.totalQuestions, questionNumber),
                 questionNumber)]

\* startDiagnosticTest, up to `await createDiagnosticTest.mutateAsync`
StartDiagnosticTest ==
  /\ \/ MenuVisible /\ ~client.isGeneratingQuestion /\ ~Pending("createTestSession")
     \/ QuestionView /\ client.showExplanation /\ client.testMode = "diagnostic"
  /\ Len(calls) < MaxCalls
  /\ client' = [client EXCEPT !.isGeneratingQuestion = TRUE,
                              !.testMode = "diagnostic",
                              !.storedAnswers = <<>>,
                              !.showExplanation = FALSE]
  /\ calls' = Append(calls, Call("createDiagnosticTest", "startDiagnosticTest",
                                 0, "full-diagnostic", 0))
  /\ UNCHANGED <<serverVars, chatMessages, exchange, adapterCalls>>

\* startQuickTest(type), up to `await createDiagnosticTest.mutateAsync`
StartQuickTest(type) ==
  /\ MenuVisible /\ ~client.isGeneratingQuestion /\ ~Pending("createDiagnosticTest")
  /\ Len(calls) < MaxCalls
  /\ Len(testSessions) < MaxClientSessions
  /\ client' = [client EXCEPT !.isGeneratingQuestion = TRUE,
                              !.testMode = "practice",
                              !.storedAnswers = <<>>,
                              !.showExplanation = FALSE]
  /\ calls' = Append(calls, Call("createDiagnosticTest", "startQuickTest", 0,
                                 type, 0))
  /\ UNCHANGED <<serverVars, chatMessages, exchange, adapterCalls>>

\* the body createDiagnosticTest posts
DiagnosticBody(type) ==
  [type |-> type, provider |-> client.selectedProvider, userId |-> "user-123"]

\* POST /api/diagnostic-tests answered 200: setCurrentSession, first question
DiagnosticTestResolved(c) ==
  /\ calls[c].op = "createDiagnosticTest"
  /\ DiagnosticSchemaAccepts(DiagnosticBody(calls[c].type))
  /\ LET body == DiagnosticBody(calls[c].type)
         questions == NumberQuestions(DiagnosticPlan(calls[c].type))
         row == InsertTestSession(DiagnosticSession(body, questions))
     IN /\ testSessions' = Append(testSessions, row)
        /\ client' = [client EXCEPT
             !.currentSession = SessionObject(Len(testSessions) + 1, row),
             !.currentQuestion = IF Len(questions) > 0 THEN questions[1] ELSE @,
             !.currentQuestionNumber = IF Len(questions) > 0 THEN 1 ELSE @,
             !.showExplanation = IF Len(questions) > 0 THEN FALSE ELSE @,
             !.isGeneratingQuestion = FALSE]
  /\ calls' = Remove(calls, c)
  /\ UNCHANGED <<questionResponses, userAnalytics, requests>>
  /\ UNCHANGED <<chatMessages, exchange, adapterCalls>>

\* POST /api/diagnostic-tests answered 500 (the schema rejected the type, or
\* a generation failed): catch, toast, finally
DiagnosticTestRejected(c) ==
  /\ calls[c].op = "createDiagnosticTest"
  /\ client' = [client EXCEPT !.isGeneratingQuestion = FALSE]
  /\ calls' = Remove(calls, c)
  /\ UNCHANGED <<serverVars, chatMessages, exchange, adapterCalls>>

\* startPracticeQuestion, up to `await createTestSession.mutateAsync`; the
\* generateNextQuestion it calls later closes over the testMode of this render
StartPracticeQuestion ==
  /\ MenuVisible /\ ~client.isGeneratingQuestion /\ ~Pending("createTestSession")
  /\ Len(calls) < MaxCalls
  /\ Len(testSessions) < MaxClientSessions
  /\ client' = [client EXCEPT !.isGeneratingQuestion = TRUE,
                              !.testMode = "practice",
                              !.showExplanation = FALSE]
  /\ calls' = Append(calls, [Call("createTestSession", "startPracticeQuestion",
                                  0, "practice", 1)
                             EXCEPT !.origin = IF client.testMode = "diagnostic"
                                                 THEN "startPracticeQuestion/diagnostic"
                                                 ELSE "startPracticeQuestion"])
  /\ UNCHANGED <<serverVars, chatMessages, exchange, adapterCalls>>

\* generateFullExam(type), up to `await createTestSession.mutateAsync`
GenerateFullExam(type) ==
  /\ ~QuestionView /\ ~Pending("createTestSession")
  /\ Len(calls) < MaxCalls
  /\ Len(testSessions) < MaxClientSessions
  /\ calls' = Append(calls, Call("createTestSession", "generateFullExam", 0,
                                 type, ExamTotalQuestions(type)))
  /\ UNCHANGED <<serverVars, chatMessages, exchange, adapterCalls, client>>

\* the body createTestSession posts; questionNumber of the call holds the
\* totalQuestions the caller passed
SessionBody(call) ==
  [userId |-> "user-123", testType |-> call.type,
   llmProvider |-> client.selectedProvider, totalQuestions |-> call.questionNumber]

\* POST /api/test-sessions answered 200: setCurrentSession, then the first
\* question is asked for
SessionCreated(c) ==
  /\ calls[c].op = "createTestSession"
  /\ SessionSchemaAccepts(SessionBody(calls[c]))
  /\ LET row == InsertTestSession(SessionSchemaParse(SessionBody(calls[c])))
         session == SessionObject(Len(testSessions) + 1, row)
         state == [client EXCEPT !.currentSession = session]
     IN /\ testSessions' = Append(testSessions, row)
        /\ IF calls[c].origin = "generateFullExam"
             THEN /\ client' = state
                  /\ calls' = Append(Remove(calls, c),
                       Call("generateQuestion", "generateFullExam", session.id,
                            FirstQuestionType(calls[c].type), 1))
             ELSE LET next == GenerateNextQuestion(state,
                                IF calls[c].origin = "startPracticeQuestion/diagnostic"
                                  THEN "diagnostic" ELSE "practice",
                                session, 1)
                  IN /\ client' = next.client
                     /\ calls' = Append(Remove(calls, c), next.call)
  /\ UNCHANGED <<questionResponses, userAnalytics, requests>>
  /\ UNCHANGED <<chatMessages, exchange, adapterCalls>>

\* POST /api/test-sessions failed: catch, toast; startPracticeQuestion's
\* finally clears isGeneratingQuestion
SessionRejected(c) ==
  /\ calls[c].op = "createTestSession"
  /\ client' = IF calls[c].origin = "generateFullExam" THEN client
               ELSE [client EXCEPT !.isGeneratingQuestion = FALSE]
  /\ calls' = Remove(calls, c)
  /\ UNCHANGED <<serverVars, chatMessages, exchange, adapterCalls>>

\* generateAnotherPracticeQuestion, up to `await generateQuestion.mutateAsync`
GenerateAnotherPracticeQuestion ==
  /\ QuestionView /\ client.showExplanation /\ client.testMode = "practice"
  /\ ~client.isGeneratingQuestion
  /\ Len(calls) < MaxCalls
  /\ client' = [client EXCEPT !.isGeneratingQuestion = TRUE,
                              !.showExplanation = FALSE]
  /\ calls' = Append(calls, Call("generateQuestion",
                                 "generateAnotherPracticeQuestion",
                                 client.currentSession.id, "multiple-choice", 1))
  /\ UNCHANGED <<serverVars, chatMessages, exchange, adapterCalls>>

\* POST /api/generate-question answered 200: setCurrentQuestion,
\* setCurrentQuestionNumber, and what each caller sets besides
QuestionGenerated(c) ==
  /\ calls[c].op = "generateQuestion"
  /\ client' = [client EXCEPT
       !.currentQuestion = GeneratedQuestion(calls[c].type, calls[c].questionNumber),
       !.currentQuestionNumber = calls[c].questionNumber,
       !.showExplanation =
          IF calls[c].origin = "generateAnotherPracticeQuestion" THEN @ ELSE FALSE,
       !.isGeneratingQuestion =
          IF calls[c].origin = "generateFullExam" THEN @ ELSE FALSE]
  /\ calls' = Remove(calls, c)
  /\ UNCHANGED <<serverVars, chatMessages, exchange, adapterCalls>>

\* POST /api/generate-question failed: catch, finally
GenerationFailed(c) ==
  /\ calls[c].op = "generateQuestion"
  /\ client' = [client EXCEPT
       !.isGeneratingQuestion =
          IF calls[c].origin = "generateFullExam" THEN @ ELSE FALSE]
  /\ calls' = Remove(calls, c)
  /\ UNCHANGED <<serverVars, chatMessages, exchange, adapterCalls>>

\* the entry handleSubmitAnswer appends to storedAnswers
StoredAnswer ==
  [sessionId |-> client.currentSession.id,
   questionNumber |-> client.currentQuestionNumber,
   questionType |-> client.currentQuestion.type,
   subject |-> client.currentQuestion.subject]

\* submitQuestionResponse.mutateAsync for each answer: the requests sent
SubmitRequests(answers) ==
  [i \in DOMAIN answers |->
     NewRequest(answers[i].sessionId, answers[i].questionNumber,
                answers[i].questionType, answers[i].subject,
                Len(answers) = 1 /\ NumInFlight = 0)
       @@ [llmProvider |-> client.selectedProvider]]

\* submitAllDiagnosticAnswers maps over the storedAnswers of the render in
\* which handleSubmitAnswer was created: the answer just given is not in it
BatchAnswers(answer) == client.storedAnswers

\* handleSubmitAnswer in diagnostic mode: store the answer, then either
\* submit the batch or ask for the next question
SubmitDiagnosticAnswer ==
  /\ client.testMode = "diagnostic"
  /\ Len(client.storedAnswers) < MaxStoredAnswers
  /\ LET nextQuestionNumber == client.currentQuestionNumber + 1
         stored == [client EXCEPT !.storedAnswers = Append(@, StoredAnswer),
                                  !.showExplanation = FALSE]
     IN IF nextQuestionNumber > TotalOr(client.currentSession.totalQuestions, 20)
          THEN /\ Len(calls) < MaxCalls
               /\ client' = stored
               /\ requests' = requests \o SubmitRequests(BatchAnswers(StoredAnswer))
               /\ calls' = Append(calls,
                    Call("submit", "submitAllDiagnosticAnswers",
                         client.currentSession.id, NULL,
                         Len(BatchAnswers(StoredAnswer))))
          ELSE LET next == GenerateNextQuestion(stored, client.testMode,
                                                client.currentSession,
                                                nextQuestionNumber)
               IN /\ Len(calls) < MaxCalls
                  /\ client' = next.client
                  /\ calls' = Append(calls, next.call)
                  /\ UNCHANGED requests

\* handleSubmitAnswer in practice mode, up to
\* `await submitQuestionResponse.mutateAsync`
SubmitPracticeAnswer ==
  /\ client.testMode = "practice"
  /\ Len(calls) < MaxCalls
  /\ requests' = requests \o SubmitRequests(<<StoredAnswer>>)
  /\ calls' = Append(calls, Call("submit", "handleSubmitAnswer",
                                 client.currentSession.id, NULL, 1))
  /\ UNCHANGED client

\* handleSubmitAnswer(answer, timeSpent); QuestionDisplay offers it while the
\* question is on screen without its explanation and nothing is being submitted
HandleSubmitAnswer ==
  /\ QuestionView
  /\ ~client.showExplanation
  /\ ~Pending("submit")
  /\ SubmitDiagnosticAnswer \/ SubmitPracticeAnswer
  /\ UNCHANGED <<testSessions, questionResponses, userAnalytics>>
  /\ UNCHANGED <<chatMessages, exchange, adapterCalls>>

\* every POST /api/question-responses of the call answered 200 and none is
\* in flight any more: setCurrentResponse / setAllResponses,
\* setShowExplanation(true)
SubmitResolved(c) ==
  /\ calls[c].op = "submit"
  /\ client' = [client EXCEPT !.showExplanation = TRUE]
  /\ calls' = Remove(calls, c)
  /\ requests' = <<>>
  /\ UNCHANGED <<testSessions, questionResponses, userAnalytics>>
  /\ UNCHANGED <<chatMessages, exchange, adapterCalls>>

\* a POST /api/question-responses of the call answered 500: catch
SubmitRejected(c) ==
  /\ calls[c].op = "submit"
  /\ calls[c].questionNumber > 0
  /\ calls' = Remove(calls, c)
  /\ requests' = <<>>
  /\ UNCHANGED <<testSessions, questionResponses, userAnalytics>>
  /\ UNCHANGED <<chatMessages, exchange, adapterCalls, client>>

\* the provider Select of the header: onValueChange, setSelectedProvider(value)
SetSelectedProvider(provider) ==
  /\ provider \in Providers
  /\ provider /= client.selectedProvider
  /\ client' = [client EXCEPT !.selectedProvider = provider]
  /\ UNCHANGED <<serverVars, chatMessages, exchange, adapterCalls, calls>>

\* setCurrentSession(null); setCurrentQuestion(null); setShowExplanation(false)
ResetSession(state) ==
  [state EXCEPT !.currentSession = NoSession, !.currentQuestion = NoQuestion,
                !.showExplanation = FALSE]

\* handleNextQuestion: the button under the explanation on the exam tabs
HandleNextQuestion ==
  /\ QuestionView /\ client.showExplanation
  /\ LET nextQuestionNumber == client.currentQuestionNumber + 1
     IN IF /\ client.testMode = "diagnostic"
           /\ client.currentQuestionNumber
                >= TotalOr(client.currentSession.totalQuestions, 3)
          THEN client' = ResetSession(client) /\ UNCHANGED calls
          ELSE IF nextQuestionNumber
                    <= TotalOr(client.currentSession.totalQuestions, 20)
            THEN LET next == GenerateNextQuestion(client, client.testMode,
                                                  client.currentSession,
                                                  nextQuestionNumber)
                 IN /\ Len(calls) < MaxCalls
                    /\ client' = next.client
                    /\ calls' = Append(calls, next.call)
            ELSE client' = ResetSession(client) /\ UNCHANGED calls
  /\ UNCHANGED <<serverVars, chatMessages, exchange, adapterCalls>>

\* the Back to Main Menu button of the diagnostic tab
BackToMainMenu ==
  /\ QuestionView
  /\ client' = ResetSession(client)
  /\ UNCHANGED <<serverVars, chatMessages, exchange, adapterCalls, calls>>

(* --------------------------- pass probability -------------------------- *)

MathMax(a, b) == IF a >= b THEN a ELSE b

\* subjects with each weight of the table, and one the table does not list
ProbabilitySubjects == {"contracts", "evidence", "family-law", "general"}

\* mutation: evidence weighs as much as contracts
SubjectWeight_Evidence15(subject) ==
  CASE subject \in {"constitutional-law", "contracts", "torts", "criminal-law",
                    "evidence"} -> 15
    [] subject \in {"real-property", "civil-procedure"} -> 10
    [] OTHER -> 5

\* subjectWeights[analytic.subject] || 0.05, in hundredths
SubjectWeight(subject) ==
  CASE subject \in {"constitutional-law", "contracts", "torts", "criminal-law"} -> 15
    [] subject \in {"evidence", "real-property", "civil-procedure"} -> 10
    [] subject \in {"family-law", "wills-trusts"} -> 5
    [] OTHER -> 5

\* parseFloat(analytic.masteryLevel || '0')
ParseMastery(masteryLevel) == IF masteryLevel = NullInt THEN 0 ELSE masteryLevel

\* storage.getUserAnalytics(userId)
GetUserAnalytics(userId) ==
  SelectSeq(userAnalytics, LAMBDA row : row.userId = userId)

\* weightedSum += score * weight, over the rows
RECURSIVE WeightedSum(_)
WeightedSum(rows) ==
  IF rows = <<>> THEN 0
  ELSE ParseMastery(Head(rows).masteryLevel) * SubjectWeight(Head(rows).subject)
         + WeightedSum(Tail(rows))

\* totalWeight += weight, over the rows
RECURSIVE TotalWeight(_)
TotalWeight(rows) ==
  IF rows = <<>> THEN 0
  ELSE SubjectWeight(Head(rows).subject) + TotalWeight(Tail(rows))

\* const avgMastery = totalWeight > 0 ? weightedSum / totalWeight : 0;
AvgMastery(rows) ==
  IF TotalWeight(rows) > 0
    THEN (2 * WeightedSum(rows) + TotalWeight(rows)) \div (2 * TotalWeight(rows))
    ELSE 0

\* mutation: the result is not cut off at 0
Rescale_NoFloor(avgMastery) ==
  Min(100 * DecimalScale, (avgMastery - 50 * DecimalScale) * 2)

\* Math.min(100, Math.max(0, (avgMastery - 50) * 2))
Rescale(avgMastery) ==
  Min(100 * DecimalScale, MathMax(0, (avgMastery - 50 * DecimalScale) * 2))

\* storage.calculatePassProbability applied to the rows it read
PassProbability(rows) == IF Len(rows) = 0 THEN 0 ELSE Rescale(AvgMastery(rows))

\* GET /api/users/:userId/analytics: res.json({ ..., passProbability, ... })
GetAnalytics ==
  /\ exchange.pc = "received"
  /\ exchange.endpoint = "GET /api/users/:userId/analytics"
  /\ exchange' = [Respond(200) EXCEPT !.passProbability =
                    PassProbability(GetUserAnalytics(exchange.body["userId"]))]
  /\ UNCHANGED <<serverVars, chatMessages, adapterCalls, client, calls>>

(* ---------------------------- specification ---------------------------- *)

\* request bodies: a session id (MaxSessions + 1 names no session), a
\* question number, a question kind and an optional subject
SessionIds == 1..(MaxSessions + 1)
QuestionNumbers == {1}
SubjectInputs == {"contracts", NULL}
WideScores == {0, 69, 70, 100, NoScore}

\* the server under concurrent submit-answer requests
Next ==
  \/ \E n \in {1, NullInt} : CreateTestSession("user-123", n, MaxSessions)
  \/ \E sessionId \in SessionIds, questionNumber \in QuestionNumbers,
        subject \in SubjectInputs :
       SubmitAnswer(sessionId, questionNumber, "multiple-choice", subject,
                    MaxRequests, MaxRequests)
  \/ \E r \in DOMAIN requests, score \in Scores : GradeReturn(r, score)
  \/ \E r \in DOMAIN requests : GradeFail(r)
  \/ \E r \in DOMAIN requests : CreateQuestionResponse(r)
  \/ \E r \in DOMAIN requests : GetTestSession(r)
  \/ \E r \in DOMAIN requests : ReadAnalytics(r)
  \/ \E r \in DOMAIN requests : SelectExisting(r)
  \/ \E r \in DOMAIN requests : WriteAnalytics(r)

Spec == Init /\ [][Next]_vars

\* the same server when every submit-answer request arrives after the
\* previous one was answered
NextSeq ==
  \/ \E n \in {3} : CreateTestSession("user-123", n, MaxSessions)
  \/ \E sessionId \in SessionIds, questionNumber \in QuestionNumbers,
        subject \in SubjectInputs :
       SubmitAnswer(sessionId, questionNumber, "multiple-choice", subject,
                    MaxSeqRequests, 1)
  \/ \E r \in DOMAIN requests, score \in Scores : GradeReturn(r, score)
  \/ \E r \in DOMAIN requests : GradeFail(r)
  \/ \E r \in DOMAIN requests : CreateQuestionResponse(r)
  \/ \E r \in DOMAIN requests : GetTestSession(r)
  \/ \E r \in DOMAIN requests : ReadAnalytics(r)
  \/ \E r \in DOMAIN requests : SelectExisting(r)
  \/ \E r \in DOMAIN requests : WriteAnalytics(r)

SpecSeq == Init /\ [][NextSeq]_vars

\* the same server grading answers without a subject tag, of every question
\* kind and with every verdict, one request at a time
NextGrade ==
  \/ \E n \in {NullInt} : CreateTestSession("user-123", n, MaxSessions)
  \/ \E sessionId \in SessionIds, questionNumber \in QuestionNumbers,
        questionType \in QuestionTypes :
       SubmitAnswer(sessionId, questionNumber, questionType, NULL,
                    MaxGradeRequests, 1)
  \/ \E r \in DOMAIN requests, score \in WideScores : GradeReturn(r, score)
  \/ \E r \in DOMAIN requests : GradeFail(r)
  \/ \E r \in DOMAIN requests : CreateQuestionResponse(r)

SpecGrade == Init /\ [][NextGrade]_vars

\* the same server when sessions are patched between sequential
\* submit-answer requests
NextPatch ==
  \/ \E n \in {1, NullInt} : CreateTestSession("user-123", n, MaxSessions)
  \/ \E id \in SessionIds, updates \in PatchBodies : PatchTestSession(id, updates)
  \/ \E sessionId \in SessionIds, questionNumber \in QuestionNumbers,
        subject \in SubjectInputs :
       SubmitAnswer(sessionId, questionNumber, "multiple-choice", subject,
                    MaxPatchRequests, 1)
  \/ \E r \in DOMAIN requests, score \in Scores : GradeReturn(r, score)
  \/ \E r \in DOMAIN requests : GradeFail(r)
  \/ \E r \in DOMAIN requests : CreateQuestionResponse(r)
  \/ \E r \in DOMAIN requests : GetTestSession(r)
  \/ \E r \in DOMAIN requests : ReadAnalytics(r)
  \/ \E r \in DOMAIN requests : SelectExisting(r)
  \/ \E r \in DOMAIN requests : WriteAnalytics(r)

SpecPatch == Init /\ [][NextPatch]_vars

\* JSON bodies sent to POST /api/test-sessions: well-formed ones, one with
\* keys outside the schema, one without llmProvider, one with an unknown
\* provider
SessionBodies ==
  {[userId |-> "user-123", testType |-> "practice", llmProvider |-> "openai"],
   [userId |-> "user-123", testType |-> "day3", llmProvider |-> "anthropic",
    totalQuestions |-> 6],
   [userId |-> "user-123", testType |-> "practice", llmProvider |-> "openai",
    status |-> "completed", currentQuestionIndex |-> 5],
   [userId |-> "user-123", testType |-> "practice"],
   [userId |-> "user-123", testType |-> "practice", llmProvider |-> "gemini"]}

\* JSON bodies sent to POST /api/question-responses
ResponseBodies ==
  {[sessionId |-> 1, questionNumber |-> 1, questionType |-> "essay",
    questionText |-> "q", userAnswer |-> "a", llmProvider |-> "openai"],
   [sessionId |-> 1, questionNumber |-> 1, questionType |-> "essay",
    questionText |-> "q", userAnswer |-> "a", llmProvider |-> "openai",
    isCorrect |-> TRUE],
   [sessionId |-> 1, questionNumber |-> 1, questionType |-> "essay",
    questionText |-> "q", llmProvider |-> "openai"],
   [sessionId |-> 1, questionNumber |-> 1, questionType |-> "true-false",
    questionText |-> "q", userAnswer |-> "a", llmProvider |-> "openai"]}

\* JSON bodies sent to POST /api/chat
ChatBodies ==
  {[userId |-> "user-123", message |-> "m", provider |-> "deepseek"],
   [userId |-> "user-123", provider |-> "deepseek"],
   [userId |-> "user-123", message |-> "m", provider |-> "gemini"]}

\* JSON bodies sent to POST /api/diagnostic-tests; "full-diagnostic" is the
\* type startDiagnosticTest sends
DiagnosticBodies ==
  {[type |-> t, provider |-> "perplexity", userId |-> "user-123"] :
     t \in DiagnosticTypes \cup {"full-diagnostic"}}
    \cup {[type |-> "single-mc", provider |-> "perplexity"]}

\* the server answering one HTTP request at a time on its mutating endpoints
NextApi ==
  \/ \E body \in SessionBodies :
       Len(testSessions) < MaxApiSessions
         /\ Receive("POST /api/test-sessions", 0, body)
  \/ \E id \in 1..MaxApiSessions, body \in StatusPatchBodies :
       Receive("PATCH /api/test-sessions/:id", id, body)
  \/ \E body \in ResponseBodies :
       Len(requests) < MaxApiRequests
         /\ Receive("POST /api/question-responses", 0, body)
  \/ \E body \in ChatBodies :
       Len(chatMessages) < MaxChatMessages /\ Receive("POST /api/chat", 0, body)
  \/ \E body \in DiagnosticBodies :
       Len(testSessions) < MaxApiSessions
         /\ Receive("POST /api/diagnostic-tests", 0, body)
  \/ PostTestSession
  \/ PatchExchange
  \/ PostQuestionResponse
  \/ AnswerQuestionResponse
  \/ PostChat
  \/ ChatReturn
  \/ ChatFail
  \/ PostDiagnosticTest
  \/ DiagnosticGenerate
  \/ DiagnosticGenerateFail
  \/ DiagnosticCreateSession
  \/ \E r \in DOMAIN requests : GradeReturn(r, PassingScore)
  \/ \E r \in DOMAIN requests : GradeFail(r)
  \/ \E r \in DOMAIN requests : CreateQuestionResponse(r)

SpecApi == Init /\ [][NextApi]_vars


\* calls of the provider adapter, with a supported or an unsupported provider
NextAdapter ==
  \/ \E kind \in AdapterKinds, provider \in Providers \cup {"gemini"} :
       AdapterCall(kind, provider)
  \/ \E c \in DOMAIN adapterCalls, reply \in Replies : BackendReply(c, reply)

SpecAdapter == Init /\ [][NextAdapter]_vars

\* the same server with sessions of two users and answers in two subjects
\* or without a subject, one request at a time
NextFrame ==
  \/ \E userId \in Users : CreateTestSession(userId, NullInt, MaxFrameSessions)
  \/ \E sessionId \in 1..MaxFrameSessions, subject \in SubjectInputs :
       SubmitAnswer(sessionId, 1, "multiple-choice", subject, MaxFrameRequests, 1)
  \/ \E r \in DOMAIN requests : GradeReturn(r, PassingScore)
  \/ \E r \in DOMAIN requests : CreateQuestionResponse(r)
  \/ \E r \in DOMAIN requests : GetTestSession(r)
  \/ \E r \in DOMAIN requests : ReadAnalytics(r)
  \/ \E r \in DOMAIN requests : SelectExisting(r)
  \/ \E r \in DOMAIN requests : WriteAnalytics(r)

SpecFrame == Init /\ [][NextFrame]_vars

\* one answer submitted and, after every 500, submitted again; any storage
\* call after the insert may throw
NextRetry ==
  \/ CreateTestSession("user-123", NullInt, 1)
  \/ \E subject \in SubjectInputs :
       requests = <<>> /\ SubmitAnswer(1, 1, "essay", subject, MaxRetryRequests, 1)
  \/ \E r \in DOMAIN requests : Resend(r, MaxRetryRequests)
  \/ \E r \in DOMAIN requests : GradeReturn(r, PassingScore)
  \/ \E r \in DOMAIN requests : GradeFail(r)
  \/ \E r \in DOMAIN requests : CreateQuestionResponse(r)
  \/ \E r \in DOMAIN requests : GetTestSession(r)
  \/ \E r \in DOMAIN requests : ReadAnalytics(r)
  \/ \E r \in DOMAIN requests : SelectExisting(r)
  \/ \E r \in DOMAIN requests : WriteAnalytics(r)
  \/ \E r \in DOMAIN requests : AnalyticsFail(r)

SpecRetry == Init /\ [][NextRetry]_vars

\* the React client with its server: the user's clicks and the answers to
\* the client's requests, in any order
NextClient ==
  \/ StartDiagnosticTest
  \/ \E type \in {"single-mc"} : StartQuickTest(type)
  \/ StartPracticeQuestion
  \/ \E type \in {"day3"} : GenerateFullExam(type)
  \/ GenerateAnotherPracticeQuestion
  \/ HandleSubmitAnswer
  \/ HandleNextQuestion
  \/ BackToMainMenu
  \/ \E c \in DOMAIN calls : DiagnosticTestResolved(c)
  \/ \E c \in DOMAIN calls : DiagnosticTestRejected(c)
  \/ \E c \in DOMAIN calls : SessionCreated(c)
  \/ \E c \in DOMAIN calls : SessionRejected(c)
  \/ \E c \in DOMAIN calls : QuestionGenerated(c)
  \/ \E c \in DOMAIN calls : GenerationFailed(c)
  \/ \E c \in DOMAIN calls : SubmitResolved(c)
  \/ \E c \in DOMAIN calls : SubmitRejected(c)

SpecClient == Init /\ [][NextClient]_vars

\* the states in which the caller's decisions are taken: a session of any
\* kind with or without a declared total, at any question number
CallerTotals == {NullInt, 6, 20}

CallerQuestionNumbers == {1, 2, 3, 5, 6, 14, 15, 18, 19, 20, 21, 22}

CallerProviders == {"openai", "anthropic"}

\* a session of the drawn kind is current and one of its questions is shown
InSession(state, testType, totalQuestions, number) ==
  LET body == [userId |-> "user-123", testType |-> testType,
               llmProvider |-> state.selectedProvider]
      row == InsertTestSession(SessionSchemaParse(
               IF totalQuestions = NullInt THEN body
               ELSE body @@ [totalQuestions |-> totalQuestions]))
  IN /\ number <= TotalOr(totalQuestions, number)
     /\ testSessions = <<row>>
     /\ client = [state EXCEPT
          !.currentSession = SessionObject(1, row),
          !.currentQuestion = GeneratedQuestion("multiple-choice", number),
          !.currentQuestionNumber = number]

\* no session yet: the start cards are shown
InMenu(state) ==
  /\ ~state.showExplanation
  /\ testSessions = <<>>
  /\ client = state

InitCaller ==
  /\ \E testMode \in {"diagnostic", "practice"}, showExplanation \in BOOLEAN :
     \E provider \in CallerProviders :
       LET state == [InitialClient EXCEPT !.selectedProvider = provider,
                                          !.testMode = testMode,
                                          !.showExplanation = showExplanation]
       IN \/ InMenu(state)
          \/ \E testType \in TestTypes, totalQuestions \in CallerTotals :
             \E number \in CallerQuestionNumbers :
               InSession(state, testType, totalQuestions, number)
  /\ questionResponses = <<>>
  /\ userAnalytics = <<>>
  /\ requests = <<>>
  /\ chatMessages = <<>>
  /\ exchange = NoExchange
  /\ adapterCalls = <<>>
  /\ calls = <<>>

\* the caller's decisions are taken one at a time: a handler runs when the
\* request of the one before it has been answered
CallerBounds ==
  /\ Len(testSessions') <= MaxCallerSessions
  /\ Len(calls') <= 1
  /\ Len(client'.storedAnswers) <= MaxCallerAnswers

\* the handlers that compare a question number with the total or choose a
\* question type, and the answers to what they request
NextCaller ==
  \/ HandleSubmitAnswer /\ CallerBounds
  \/ HandleNextQuestion /\ CallerBounds
  \/ \E type \in ExamTypes : GenerateFullExam(type) /\ CallerBounds
  \/ \E c \in DOMAIN calls : SessionCreated(c) /\ CallerBounds
  \/ \E c \in DOMAIN calls : QuestionGenerated(c)
  \/ \E c \in DOMAIN calls : GenerationFailed(c)
  \/ \E c \in DOMAIN calls : SubmitResolved(c)
  \/ \E c \in DOMAIN calls : SubmitRejected(c)

SpecCaller == InitCaller /\ [][NextCaller]_vars

\* the providers the user picks in the header
SelectableProviders == {"openai", "anthropic"}

\* bounds of these runs
ProviderBounds ==
  /\ Len(testSessions') <= MaxProviderSessions
  /\ Len(calls') <= MaxCalls

\* a practice question or the Day 3 exam started, answered and left, with the
\* provider Select of the header changed at any moment
NextProvider ==
  \/ \E provider \in SelectableProviders : SetSelectedProvider(provider)
  \/ StartPracticeQuestion /\ ProviderBounds
  \/ GenerateFullExam("day3") /\ ProviderBounds
  \/ GenerateAnotherPracticeQuestion /\ ProviderBounds
  \/ HandleSubmitAnswer /\ ProviderBounds
  \/ BackToMainMenu
  \/ \E c \in DOMAIN calls : SessionCreated(c) /\ ProviderBounds
  \/ \E c \in DOMAIN calls : SessionRejected(c)
  \/ \E c \in DOMAIN calls : QuestionGenerated(c)
  \/ \E c \in DOMAIN calls : GenerationFailed(c)
  \/ \E c \in DOMAIN calls : SubmitResolved(c)
  \/ \E c \in DOMAIN calls : SubmitRejected(c)

SpecProvider == Init /\ [][NextProvider]_vars

\* totalQuestions and correctAnswers of the analytics rows drawn
AnalyticsCounts == {<<1, 0>>, <<2, 1>>, <<3, 2>>, <<4, 3>>, <<1, 1>>}

\* rows updateUserAnalytics can have written
AnalyticsRowInputs ==
  {NewAnalytics(userId, subject, AnalyticsValues(counts[1], counts[2])) :
     userId \in Users, subject \in ProbabilitySubjects, counts \in AnalyticsCounts}

InitProbability ==
  /\ \E n \in 0..MaxProbabilityRows : userAnalytics \in [1..n -> AnalyticsRowInputs]
  /\ testSessions = <<>>
  /\ questionResponses = <<>>
  /\ requests = <<>>
  /\ chatMessages = <<>>
  /\ exchange = NoExchange
  /\ adapterCalls = <<>>
  /\ client = InitialClient
  /\ calls = <<>>

\* the analytics endpoint asked for each user, over any table contents
NextProbability ==
  \/ \E userId \in Users : Receive("GET /api/users/:userId/analytics", 0, [userId |-> userId])
  \/ GetAnalytics

SpecProbability == InitProbability /\ [][NextProbability]_vars

(* ------------------------------- claims -------------------------------- *)

\* submit-answer requests that have completed updateUserAnalytics(userId, subject, _)
Recorded(userId, subject) ==
  {r \in DOMAIN requests :
     /\ requests[r].pc = "done"
     /\ requests[r].userId = userId
     /\ requests[r].subject = subject}

RecordedCorrect(userId, subject) ==
  {r \in Recorded(userId, subject) : requests[r].isCorrect}

\* C1: in every reachable state, whatever the interleaving of submit-answer
\* requests, every user_analytics row has correctAnswers <= totalQuestions.
C1_CorrectAtMostTotal ==
  \A i \in DOMAIN userAnalytics :
    userAnalytics[i].correctAnswers <= userAnalytics[i].totalQuestions

\* two overlapping requests have both written the same row, with correct answers
C1_Witness ==
  \E i \in DOMAIN userAnalytics :
    /\ userAnalytics[i].totalQuestions = 2
    /\ userAnalytics[i].correctAnswers = 2
    /\ \E r \in DOMAIN requests : requests[r].pc = "done" /\ ~requests[r].alone

\* C2: at most one user_analytics row exists per (user, subject) pair, also
\* when two submit-answer requests for a pair without a row run concurrently.
C2_OneRowPerUserSubject ==
  \A u \in Users, s \in Subjects : Cardinality(AnalyticsRows(u, s)) <= 1

\* C3: when the submit-answer requests ran one after the other, the row of
\* (user, subject) counts every one of them: totalQuestions equals the number
\* of completed analytics updates (two requests make it grow by exactly 2).
\* The lost increment of two overlapping requests is the witness.
C3_SequentialIncrements ==
  (\A r \in DOMAIN requests : requests[r].alone) =>
    \A u \in Users, s \in Subjects :
      LET n == Cardinality(Recorded(u, s))
          rows == AnalyticsRows(u, s)
      IN IF n = 0 THEN rows = {}
         ELSE /\ Cardinality(rows) = 1
              /\ \A i \in rows : userAnalytics[i].totalQuestions = n

\* two overlapping requests read the same prior counts; after both completed
\* the single row has grown by 1 instead of 2
C3_LostIncrement ==
  \E r1, r2 \in DOMAIN requests :
    /\ r1 /= r2
    /\ requests[r1].pc = "done" /\ requests[r2].pc = "done"
    /\ requests[r1].userId /= NULL
    /\ requests[r1].userId = requests[r2].userId
    /\ requests[r1].subject = requests[r2].subject
    /\ requests[r1].totalQuestions = requests[r2].totalQuestions
    /\ LET rows == AnalyticsRows(requests[r1].userId, requests[r1].subject)
       IN /\ Cardinality(rows) = 1
          /\ \A i \in rows : userAnalytics[i].totalQuestions = 1
    /\ Cardinality(Recorded(requests[r1].userId, requests[r1].subject)) = 2

Abs(x) == IF x < 0 THEN 0 - x ELSE x

\* C4: for every sequence of recordOutcome calls, the stored averageScore of
\* a row is correctAnswers / totalQuestions * 100 of the same row, to the
\* precision of the stored number (half a unit of the quotient's last digit).
C4_AverageIsRatio ==
  \A i \in DOMAIN userAnalytics :
    LET row == userAnalytics[i]
    IN 2 * Abs(row.averageScore * row.totalQuestions
                 - 100 * DecimalScale * row.correctAnswers)
         <= 100 * row.totalQuestions

\* three calls, one of them correct: the average is 33.33...
C4_Witness ==
  \E i \in DOMAIN userAnalytics :
    /\ userAnalytics[i].totalQuestions = 3
    /\ userAnalytics[i].correctAnswers = 1
    /\ Cardinality(Recorded(userAnalytics[i].userId, userAnalytics[i].subject)) = 3

\* C5: upsert semantics.  After n sequential calls for (user, subject) of
\* which k were correct there is exactly one row, created by the first call,
\* holding totalQuestions = n, correctAnswers = k and
\* masteryLevel = min(100, averageScore); before the first call there is none.
C5_UpsertCounts ==
  \A u \in Users, s \in Subjects :
    LET n == Cardinality(Recorded(u, s))
        k == Cardinality(RecordedCorrect(u, s))
        rows == AnalyticsRows(u, s)
    IN IF n = 0 THEN rows = {}
       ELSE /\ Cardinality(rows) = 1
            /\ \A i \in rows :
                 /\ userAnalytics[i].totalQuestions = n
                 /\ userAnalytics[i].correctAnswers = k
                 /\ userAnalytics[i].masteryLevel
                      = Min(100 * DecimalScale, userAnalytics[i].averageScore)

\* three graded answers, correct / incorrect / correct: 2 correct of 3
C5_Witness ==
  /\ Len(requests) = 3
  /\ \A r \in DOMAIN requests :
       requests[r].pc = "done" /\ requests[r].userId = "user-123"
         /\ requests[r].subject = "contracts"
  /\ requests[1].isCorrect /\ ~requests[2].isCorrect /\ requests[3].isCorrect
  /\ \E i \in DOMAIN userAnalytics :
       userAnalytics[i].totalQuestions = 3 /\ userAnalytics[i].correctAnswers = 2

\* C6: the isCorrect flag of every persisted QuestionResponse is true exactly
\* when the grading score is >= 70, for every question kind.
C6_ThresholdAt70 ==
  \A i \in DOMAIN questionResponses :
    questionResponses[i].isCorrect <=> (questionResponses[i].score >= 70)

\* an essay graded 70 is correct, a short answer graded 69 is not
C6_Witness ==
  \E i, j \in DOMAIN questionResponses :
    /\ questionResponses[i].questionType = "essay"
    /\ questionResponses[i].score = 70 /\ questionResponses[i].isCorrect
    /\ questionResponses[j].questionType = "short-answer"
    /\ questionResponses[j].score = 69 /\ ~questionResponses[j].isCorrect

\* C7: every persisted QuestionResponse references a test session that exists.
C7_ResponseReferencesSession ==
  \A i \in DOMAIN questionResponses :
    questionResponses[i].sessionId \in DOMAIN testSessions

\* a request naming no session was graded, its insert was rejected, and no
\* row with its session id was left behind
C7_Witness ==
  \E r \in DOMAIN requests :
    /\ requests[r].pc = "failed"
    /\ requests[r].score /= NoScore
    /\ requests[r].sessionId \notin DOMAIN testSessions
    /\ \A i \in DOMAIN questionResponses :
         questionResponses[i].sessionId /= requests[r].sessionId

\* C8: no two persisted QuestionResponses share (sessionId, questionNumber).
C8_UniqueQuestionNumbers ==
  \A i, j \in DOMAIN questionResponses :
    (/\ questionResponses[i].sessionId = questionResponses[j].sessionId
     /\ questionResponses[i].questionNumber = questionResponses[j].questionNumber)
      => i = j

\* C9: the status of a session is always one of active, completed,
\* abandoned, and a session that has left active never returns to it.
C9_StatusStateMachine ==
  [][\A i \in DOMAIN testSessions' :
       /\ testSessions'[i].status \in SessionStatus
       /\ (i \in DOMAIN testSessions /\ testSessions[i].status /= "active")
            => testSessions'[i].status /= "active"]_vars

ResponsesOf(sessionId) ==
  {i \in DOMAIN questionResponses : questionResponses[i].sessionId = sessionId}

\* C10: a session with totalQuestions = N is completed once N graded answers
\* have been persisted for it, and active before that.
C10_CompletesAfterLastAnswer ==
  \A id \in DOMAIN testSessions :
    testSessions[id].totalQuestions /= NullInt =>
      IF Cardinality(ResponsesOf(id)) >= testSessions[id].totalQuestions
        THEN testSessions[id].status = "completed"
        ELSE testSessions[id].status = "active"

\* C11: every session created through POST /api/test-sessions or
\* POST /api/diagnostic-tests is persisted with currentQuestionIndex = 0 and
\* status = active, whatever keys the request body carries.
C11_CreatedActiveAtZero ==
  [][\A i \in DOMAIN testSessions' :
       i \notin DOMAIN testSessions =>
         /\ testSessions'[i].status = "active"
         /\ testSessions'[i].currentQuestionIndex = 0]_vars

\* a body carrying status and currentQuestionIndex was accepted and its
\* session was stored active at index 0
C11_Witness ==
  /\ exchange.endpoint = "POST /api/test-sessions"
  /\ exchange.pc = "responded" /\ exchange.status = 200
  /\ {"status", "currentQuestionIndex"} \subseteq DOMAIN exchange.body
  /\ exchange.body["status"] = "completed"
  /\ testSessions[exchange.session].status = "active"
  /\ testSessions[exchange.session].currentQuestionIndex = 0

\* the payloads the specification calls valid: exactly the fields of the
\* endpoint's schema, every required one present, every enum value known
RequiredFields(endpoint) ==
  CASE endpoint = "POST /api/test-sessions" -> {"userId", "testType", "llmProvider"}
    [] endpoint = "POST /api/question-responses" ->
         {"sessionId", "questionNumber", "questionType", "questionText",
          "userAnswer", "llmProvider"}
    [] endpoint = "POST /api/chat" -> {"userId", "message", "provider"}
    [] endpoint = "POST /api/diagnostic-tests" -> {"type", "provider", "userId"}
    [] OTHER -> {}

OptionalFields(endpoint) ==
  CASE endpoint = "POST /api/test-sessions" -> {"totalQuestions", "metadata"}
    [] endpoint = "POST /api/question-responses" ->
         {"subject", "options", "correctAnswer", "timeSpent"}
    [] endpoint = "POST /api/chat" -> {"context"}
    [] endpoint = "PATCH /api/test-sessions/:id" ->
         {"status", "totalQuestions", "currentQuestionIndex", "score",
          "passProbability", "timeCompleted", "metadata"}
    [] OTHER -> {}

EnumValues(field) ==
  CASE field \in {"llmProvider", "provider"} -> Providers
    [] field = "questionType" -> QuestionTypes
    [] field = "type" -> DiagnosticTypes
    [] field = "status" -> SessionStatus
    [] OTHER -> {}

PayloadValid(x) ==
  /\ RequiredFields(x.endpoint) \subseteq DOMAIN x.body
  /\ DOMAIN x.body \subseteq RequiredFields(x.endpoint) \cup OptionalFields(x.endpoint)
  /\ \A f \in DOMAIN x.body : EnumValues(f) /= {} => x.body[f] \in EnumValues(f)

\* C12: while the server serves a request whose payload has a missing field,
\* a field outside the schema or an unknown enum value, no stored record
\* (session, response, analytics row, chat message) changes.
C12_InvalidPayloadChangesNothing ==
  [][(exchange.pc /= "idle" /\ ~PayloadValid(exchange)) =>
       UNCHANGED <<testSessions, questionResponses, userAnalytics, chatMessages>>]_vars

\* C17: a successful POST /api/diagnostic-tests answers a session whose
\* totalQuestions is the number of questions, and questions numbered 1..n in
\* order; for single-mc that is one question numbered 1 and totalQuestions 1.
C17_DiagnosticShape ==
  (/\ exchange.endpoint = "POST /api/diagnostic-tests"
   /\ exchange.pc = "responded" /\ exchange.status = 200) =>
    /\ exchange.session \in DOMAIN testSessions
    /\ testSessions[exchange.session].totalQuestions = Len(exchange.questions)
    /\ \A i \in DOMAIN exchange.questions :
         exchange.questions[i].questionNumber = i
    /\ exchange.body["type"] = "single-mc" =>
         /\ Len(exchange.questions) = 1
         /\ exchange.questions[1].questionNumber = 1
         /\ exchange.questions[1].type = "multiple-choice"
         /\ testSessions[exchange.session].totalQuestions = 1

\* a three-mixed test was answered: three questions numbered 1, 2, 3 and a
\* session of three questions
C17_Witness ==
  /\ exchange.endpoint = "POST /api/diagnostic-tests"
  /\ exchange.pc = "responded" /\ exchange.status = 200
  /\ exchange.body["type"] = "three-mixed"
  /\ Len(exchange.questions) = 3
  /\ exchange.questions[3].questionNumber = 3
  /\ testSessions[exchange.session].totalQuestions = 3

\* C13: an adapter call with provider P invokes the backend of P at most once
\* and no other backend; a reply without a parsable JSON object (generate,
\* grade), an HTTP failure, or an unsupported provider id ends the call with
\* an error, without a second invocation.
C13_NoRetryNoFallback ==
  \A c \in DOMAIN adapterCalls :
    LET call == adapterCalls[c]
    IN /\ Len(call.invoked) <= 1
       /\ \A i \in DOMAIN call.invoked : call.invoked[i] = call.provider
       /\ call.provider \notin Providers =>
            call.invoked = <<>> /\ call.pc = "error"
       /\ call.reply = "failure" => call.pc = "error"
       /\ (call.kind /= "chat" /\ call.reply \in {"text", "truncated"}) =>
            call.pc = "error"

\* one call with an unsupported provider and one grading call whose backend
\* answered prose both ended in an error; the backend was invoked once
C13_Witness ==
  \E c, d \in DOMAIN adapterCalls :
    /\ adapterCalls[c].provider = "gemini" /\ adapterCalls[c].pc = "error"
    /\ adapterCalls[d].kind = "grade" /\ adapterCalls[d].provider = "anthropic"
    /\ adapterCalls[d].reply = "text" /\ adapterCalls[d].pc = "error"
    /\ adapterCalls[d].invoked = <<"anthropic">>

\* C14: a submit-answer request without a subject persists its response and
\* changes no user_analytics row; user_analytics changes only when a request
\* with a subject, on a session that has an owner, finishes its update, and
\* then only rows of (that owner, that subject) are written or added.
C14_AnalyticsOnlyWithSubject ==
  [][/\ \A r \in DOMAIN requests' :
          (requests'[r].pc = "done" /\ requests'[r].subject = NULL) =>
            /\ requests'[r].userId = NULL
            /\ \E i \in DOMAIN questionResponses' :
                 /\ questionResponses'[i].sessionId = requests'[r].sessionId
                 /\ questionResponses'[i].subject = NULL
            /\ (r \in DOMAIN requests /\ requests[r].pc /= "done") =>
                 userAnalytics' = userAnalytics
     /\ userAnalytics' /= userAnalytics =>
          \E r \in DOMAIN requests :
            /\ requests[r].pc = "write" /\ requests'[r].pc = "done"
            /\ requests[r].subject /= NULL
            /\ requests[r].sessionId \in DOMAIN testSessions
            /\ testSessions[requests[r].sessionId].userId /= NULL
            /\ Len(userAnalytics') >= Len(userAnalytics)
            /\ \A i \in DOMAIN userAnalytics' :
                 (i \notin DOMAIN userAnalytics \/ userAnalytics'[i] /= userAnalytics[i])
                   => /\ userAnalytics'[i].userId
                           = testSessions[requests[r].sessionId].userId
                      /\ userAnalytics'[i].subject = requests[r].subject]_vars

\* an answer without a subject was persisted and left no analytics behind;
\* a contracts answer of user-123 and a contracts answer of user-456 each
\* wrote their own row
C14_Witness ==
  /\ \E r \in DOMAIN requests :
       requests[r].pc = "done" /\ requests[r].subject = NULL
  /\ \E i \in DOMAIN questionResponses : questionResponses[i].subject = NULL
  /\ \E i, j \in DOMAIN userAnalytics :
       /\ userAnalytics[i].userId = "user-123"
       /\ userAnalytics[j].userId = "user-456"
       /\ userAnalytics[i].subject = "contracts"
       /\ userAnalytics[j].subject = "contracts"
       /\ userAnalytics[i].totalQuestions = 1
       /\ userAnalytics[j].totalQuestions = 1
  /\ Len(userAnalytics) = 2

\* a step in which the client sends submit-answer requests
SendsRequests == Len(requests') > Len(requests)

\* the requests sent in the step
Sent == {requests'[i] : i \in (Len(requests) + 1)..Len(requests')}

\* C15: in diagnostic deferred-submission mode the client sends
\* submit-answer requests only with the answer to the last question of the
\* session (the question number has reached totalQuestions), when at least
\* totalQuestions answers have been given
C15_NoGradingBeforeLastAnswer ==
  [][(client.testMode = "diagnostic" /\ SendsRequests)
       => /\ client.currentQuestionNumber
               >= TotalOr(client.currentSession.totalQuestions, 20)
          /\ Len(client'.storedAnswers)
               >= TotalOr(client.currentSession.totalQuestions, 20)]_vars

\* C16: the batch sent when a diagnostic test completes holds exactly one
\* submit-answer request for each question number 1..totalQuestions of the
\* session, the last question included
C16_BatchHoldsEveryAnswer ==
  [][(Pending("submit")' /\ ~Pending("submit") /\ client.testMode = "diagnostic")
       => /\ Len(requests') - Len(requests)
               = TotalOr(client.currentSession.totalQuestions, 20)
          /\ \A n \in 1..TotalOr(client.currentSession.totalQuestions, 20) :
               \E r \in Sent : /\ r.questionNumber = n
                               /\ r.sessionId = client.currentSession.id]_vars

\* C20: every submit-answer request carries a question number between 1 and
\* the totalQuestions of its session, and no next question is asked for
\* with a number above the totalQuestions of the session it is asked for
C20_NeverBeyondTotal ==
  /\ \A i \in DOMAIN requests :
       /\ requests[i].questionNumber >= 1
       /\ requests[i].questionNumber
            <= testSessions[requests[i].sessionId].totalQuestions
  /\ \A c \in DOMAIN calls :
       calls[c].op = "generateQuestion"
         => calls[c].questionNumber
              <= testSessions[calls[c].sessionId].totalQuestions

\* the schedule of a 20-question diagnostic
DiagnosticSchedule(questionNumber) ==
  IF questionNumber \in 16..18 THEN "short-answer"
  ELSE IF questionNumber \in 19..20 THEN "essay"
  ELSE "multiple-choice"

KindDefault(testType) ==
  CASE testType = "diagnostic-dev" -> 3
    [] testType = "diagnostic" -> 20
    [] testType = "day1" -> 22
    [] testType = "day2" -> 200
    [] testType = "day3" -> 6
    [] testType = "full-exam" -> 228

\* a step of handleSubmitAnswer in deferred mode
StoresAnswer == Len(client'.storedAnswers) > Len(client.storedAnswers)

\* a step of handleNextQuestion
TakesNext ==
  /\ QuestionView /\ client.showExplanation
  /\ \/ ~HasSession'
     \/ /\ Len(calls') > Len(calls)
        /\ calls'[Len(calls')].origin = "generateNextQuestion"

Raised(rows, i, masteryLevel) == [rows EXCEPT ![i].masteryLevel = masteryLevel]

\* the mastery levels a row can be raised to
MasteryInputs ==
  {MasteryLevel(AverageScore(counts[2], counts[1])) : counts \in AnalyticsCounts}

\* the analytics endpoint has answered a user
Answered ==
  /\ exchange.endpoint = "GET /api/users/:userId/analytics"
  /\ exchange.pc = "responded"

\* C21: the pass probability answered is between 0 and 100, is 0 for a user
\* without analytics rows, and raising the masteryLevel of any one row of
\* the user never gives a lower value
C21_BoundedMonotonic ==
  Answered =>
    LET rows == GetUserAnalytics(exchange.body["userId"])
    IN /\ exchange.passProbability >= 0
       /\ exchange.passProbability <= 100 * DecimalScale
       /\ rows = <<>> => exchange.passProbability = 0
       /\ \A i \in DOMAIN rows : \A m \in MasteryInputs :
            m >= rows[i].masteryLevel
              => PassProbability(Raised(rows, i, m)) >= exchange.passProbability

\* a user with rows is answered a probability strictly between 0 and 100
\* that rises when one mastery is raised
C21_Witness ==
  /\ Answered
  /\ exchange.passProbability > 0
  /\ exchange.passProbability < 100 * DecimalScale
  /\ \E i \in DOMAIN GetUserAnalytics(exchange.body["userId"]) :
       PassProbability(Raised(GetUserAnalytics(exchange.body["userId"]), i,
                              100 * DecimalScale))
         > exchange.passProbability

\* the weight table of the specification, in hundredths
TableWeight(subject) ==
  IF subject \in {"constitutional-law", "contracts", "torts", "criminal-law"} THEN 15
  ELSE IF subject \in {"evidence", "real-property", "civil-procedure"} THEN 10
  ELSE 5

\* sum of masteryLevel * weight over the rows, under the table
RECURSIVE TableSum(_)
TableSum(rows) ==
  IF rows = <<>> THEN 0
  ELSE Head(rows).masteryLevel * TableWeight(Head(rows).subject)
         + TableSum(Tail(rows))

\* sum of the weights of the rows, under the table
RECURSIVE TableTotal(_)
TableTotal(rows) ==
  IF rows = <<>> THEN 0
  ELSE TableWeight(Head(rows).subject) + TableTotal(Tail(rows))

\* C22: with W the weight-normalised average of the masteryLevel of the
\* user's rows under the weight table (0.15 / 0.10 / 0.05, 0.05 for an
\* unlisted subject), the pass probability answered is 0 when W <= 50, 100
\* when W >= 100 and (W - 50) * 2 in between, to the last stored decimal
C22_ClampedRescaling ==
  (Answered /\ GetUserAnalytics(exchange.body["userId"]) /= <<>>) =>
    LET rows == GetUserAnalytics(exchange.body["userId"])
        sum == TableSum(rows)
        weight == TableTotal(rows)
        exact == 2 * (sum - 50 * DecimalScale * weight)
    IN /\ sum <= 50 * DecimalScale * weight => exchange.passProbability = 0
       /\ sum >= 100 * DecimalScale * weight
            => exchange.passProbability = 100 * DecimalScale
       /\ (sum > 50 * DecimalScale * weight /\ sum < 100 * DecimalScale * weight)
            => /\ exchange.passProbability * weight - exact <= weight
               /\ exact - exchange.passProbability * weight <= weight

\* rows of different weight: contracts at 100 and evidence at 50 average
\* 80, which answers 60
C22_Witness ==
  /\ Answered
  /\ exchange.passProbability = 60 * DecimalScale
  /\ \E i, j \in DOMAIN userAnalytics :
       /\ userAnalytics[i].userId = exchange.body["userId"]
       /\ userAnalytics[j].userId = exchange.body["userId"]
       /\ userAnalytics[i].subject = "contracts"
       /\ userAnalytics[j].subject = "evidence"

\* C23: on the generate and grade paths of every provider, a reply that
\* holds the JSON payload in ```json fences after a line of commentary is
\* parsed to the result the bare payload is parsed to
C23_FencedReplyParsesAlike ==
  \A c \in DOMAIN adapterCalls :
    LET call == adapterCalls[c]
    IN (call.kind /= "chat" /\ call.reply = "commentary")
         => /\ call.pc = "returned"
            /\ call.result = JsonParse(<<"{", "payload", "}">>)

\* a submit-answer request whose grading call threw: answered 500, no verdict
GradingFailed(r) == requests[r].pc = "failed" /\ requests[r].score = NoScore

\* the requests whose grading call returned a verdict
Graded == {r \in DOMAIN requests : requests[r].score /= NoScore}

\* C24: when the grading call of a submit-answer request fails, the request
\* ends with the 500 answer and takes no further step, the failing step
\* changes no stored table, and no QuestionResponse and no analytics count
\* exists beyond those of the requests whose grading returned.
C24_GradingFailureStoresNothing ==
  /\ [][\A r \in DOMAIN requests :
          /\ (requests[r].pc = "grade" /\ requests'[r].pc = "failed")
               => UNCHANGED <<testSessions, questionResponses, userAnalytics>>
          /\ GradingFailed(r) => requests'[r] = requests[r]]_vars
  /\ [](/\ Len(questionResponses) <= Cardinality(Graded)
        /\ \A i \in DOMAIN userAnalytics :
             userAnalytics[i].totalQuestions <= Cardinality(Graded))

\* one answer was graded and counted, the grading of the next one failed
C24_Witness ==
  /\ Len(requests) = 2
  /\ requests[1].pc = "done" /\ requests[1].subject = "contracts"
  /\ GradingFailed(2)
  /\ Len(questionResponses) = 1
  /\ \E i \in DOMAIN userAnalytics : userAnalytics[i].totalQuestions = 1

\* the requests that ended with the 200 answer
Succeeded == {r \in DOMAIN requests : requests[r].pc = "done"}

\* C25: once an answer that was re-sent after every failure has been accepted
\* and nothing is in flight, the store holds what one successful submission
\* produces: one QuestionResponse and, for a tagged answer, a count of one.
C25_RetryStoresOnce ==
  (NumInFlight = 0 /\ Cardinality(Succeeded) = 1)
    => /\ Len(questionResponses) = 1
       /\ \A i \in DOMAIN userAnalytics : userAnalytics[i].totalQuestions = 1

\* the persisted responses tagged with the subject in sessions owned by the
\* user
OwnedResponses(userId, subject) ==
  {i \in DOMAIN questionResponses :
     /\ questionResponses[i].subject = subject
     /\ questionResponses[i].sessionId \in DOMAIN testSessions
     /\ testSessions[questionResponses[i].sessionId].userId = userId}

\* C26: whenever no request is in flight, the analytics row of every user
\* and subject counts the persisted responses of that subject in the user's
\* sessions in totalQuestions and the correct ones in correctAnswers; there
\* is no such response when there is no row.
C26_AnalyticsCountResponses ==
  NumInFlight = 0 =>
    \A u \in Users, s \in Subjects :
      LET responses == OwnedResponses(u, s)
          correct == {i \in responses : questionResponses[i].isCorrect}
          rows == AnalyticsRows(u, s)
      IN IF rows = {} THEN responses = {}
         ELSE \A i \in rows :
                /\ userAnalytics[i].totalQuestions = Cardinality(responses)
                /\ userAnalytics[i].correctAnswers = Cardinality(correct)

\* C27: the type of every request the client has sent to
\* POST /api/diagnostic-tests is one the server's schema accepts, the type
\* startDiagnosticTest sends included.
C27_ClientTypesAccepted ==
  \A c \in DOMAIN calls :
    calls[c].op = "createDiagnosticTest"
      => DiagnosticSchemaAccepts(DiagnosticBody(calls[c].type))

\* C28: the answers of a session started by generateFullExam are handled in
\* the mode a client that started no test before handles them in (stored
\* and graded at the end), whichever test was started earlier.
C28_ExamModeIndependentOfHistory ==
  (QuestionView /\ client.currentSession.testType \in ExamTypes)
    => client.testMode = InitialClient.testMode

\* C29: while a session is current every stored answer was given in it, and
\* every request of a batch sent by submitAllDiagnosticAnswers carries the
\* id of the session the batch was sent for.
C29_StoredAnswersOfCurrentSession ==
  /\ HasSession =>
       \A i \in DOMAIN client.storedAnswers :
         client.storedAnswers[i].sessionId = client.currentSession.id
  /\ \A c \in DOMAIN calls :
       calls[c].origin = "submitAllDiagnosticAnswers"
         => \A r \in DOMAIN requests : requests[r].sessionId = calls[c].sessionId

\* C30: every submit-answer request the client sends for a session names,
\* as the provider that grades the answer and is recorded with it, the
\* provider the session was created with.
C30_GradedBySessionProvider ==
  \A r \in DOMAIN requests :
    requests[r].sessionId \in DOMAIN testSessions
      => requests[r].llmProvider = testSessions[requests[r].sessionId].llmProvider

====
